---- MODULE Spec2Model ----
(***************************************************************************)
(* SafeTrip backend: the alert / incident lifecycle handled by the         *)
(* emergency router (part_000), the alert router (part_001) and the        *)
(* authority router (part_002), and the zones of the geo router            *)
(* (routes/geo.js).                                                        *)
(*                                                                         *)
(* Every Express handler is an async function: between two awaited         *)
(* database operations other handlers may run.  A handler is therefore     *)
(* modelled as one action per database write it performs (the reads and    *)
(* the synchronous code that precede a write belong to the same action),   *)
(* with its position and its in-memory documents kept in reqs.  The HTTP    *)
(* status a handler answers with is an operator of the request and of the  *)
(* stored data; a request answered with an error changes nothing.          *)
(***************************************************************************)
EXTENDS Integers, Sequences, FiniteSets, TLC

\* ------------------------------------------------------------------ bounds
MaxAlerts == 2        \* alerts ever created (ObjectIds are never reused)
MaxInflight == 1      \* handlers suspended at an await at the same time
MaxIncidents == 3     \* incidents ever filed
MaxFilings == 2       \* incident filings suspended at the same time
MaxZones == 3         \* documents in the GeoFence collection
MaxLat == 4           \* latitudes 1..MaxLat; 0 stands for a falsy coordinate
MaxRecent == 3        \* alerts stored when the recent alerts are counted
MaxAuthorities == 2   \* documents in the Authority collection
MaxHandlers == 2      \* handlers suspended beside a location update

\* ------------------------------------------------------------- the actors
Null == "null"
Tourists == {"t1", "t2"}          \* users of type tourist, with a profile
Authorities == {"a1"}             \* users of type authority, with a profile
Users == Tourists \cup Authorities

\* req.user.userType, set by the auth middleware from the token
userType(u) == IF u \in Tourists THEN "tourist" ELSE "authority"

\* Tourist.findOne({ userId }): the profile, or null
TouristFindOne(u) == IF u \in Tourists THEN u ELSE Null

\* Authority.findOne({ userId }): the profile, or null
AuthorityFindOne(u) == IF u \in Authorities THEN u ELSE Null

\* ------------------------------------------------------ request body inputs
Absent == "absent"                               \* field not in the body
LocationInputs == {Absent, "zero", "ok"}         \* none / lat or lng 0 / both non-zero
SeverityInputs == {Absent, "high"}
TypeInputs == {Absent, "sos", "incident", "manual"}
DescriptionInputs == {Absent, "body"}
NotesInputs == {Absent, "notes"}
StatusInputs == {Absent, "active", "acknowledged", "responding", "resolved", "closed"}
BodyStatusInputs == {Absent, "resolved"}          \* a status field sent to POST /alerts

\* !location || !location.lat || !location.lng  (0 is falsy)
SosLocationMissing(loc) == loc = Absent \/ loc = "zero"

\* the statuses each status endpoint accepts
AlertRouterStatuses == {"acknowledged", "responding", "resolved", "closed"}
AuthorityRouterStatuses == {"acknowledged", "responding", "resolved", "closed"}
SosStatuses == {"acknowledged", "responding", "resolved"}

\* status of a new Alert document built without a status field
AlertDefaultStatus == "active"

\* departments assignToAuthority accepts
EligibleDepartments == {"Police Department", "Tourism Department"}

\* ------------------------------------------------- failing collaborators
NoFault == "none"
\* alert.save() of the incident handler: resolves, or rejects
SaveFaults == {NoFault, "save"}
\* assignToAuthority: Authority.find rejects, or incident.save() rejects
AssignFaults == {NoFault, "find", "save"}
\* an awaited promise that never settles
Pending == "pending"
\* notifyAuthorities: the read of the populated tourist or Authority.find
\* throws, or Authority.find never settles
AuthorityDispatchFaults == {NoFault, "read", "find", Pending}
\* notifyEmergencyContacts: the read of the populated user, the creation of
\* the transport or sendMail throws, or sendMail never settles
ContactDispatchFaults == {NoFault, "read", "transport", "send", Pending}

VARIABLES
    alerts,         \* Alert collection: _id -> document
    nextAlert,      \* the next fresh Alert _id
    incidents,      \* Incident collection, in creation order
    touristStatus,  \* Tourist collection: status of each profile
    authorityPool,  \* Authority.find({isOnDuty, department in eligible}), in order
    reqs,           \* suspended handlers: slot -> position and local documents
    safetyScore,    \* Tourist collection: safetyScore written by a location update
    currentLocation,\* Tourist collection: currentLocation written by a location update
    geofences,      \* GeoFence collection, in the order find() returns it
    locationSharing \* Tourist collection: locationSharing of each profile

vars == <<alerts, nextAlert, incidents, touristStatus, authorityPool, reqs,
          safetyScore, currentLocation, geofences, locationSharing>>

\* what the location handler and the geofence collection hold
scoring == <<safetyScore, currentLocation, geofences, locationSharing>>

Slots == DOMAIN reqs
Idle == [op |-> "idle"]
IsIdle(s) == reqs[s].op = "idle"
Busy == \E s \in Slots : ~IsIdle(s)
\* a handler that suspends takes the lowest free slot
FreeSlot(s) == IsIdle(s) /\ \A s2 \in Slots : s2 < s => ~IsIdle(s2)

\* alert writes still to come from suspended incident handlers
PendingAlerts == Cardinality({s \in Slots : reqs[s].op = "incident" /\ reqs[s].pc = "save_alert"})
CanCreateAlert == nextAlert + PendingAlerts <= MaxAlerts

Init ==
    /\ alerts = << >>
    /\ nextAlert = 1
    /\ incidents = << >>
    /\ touristStatus = [t \in Tourists |-> "active"]
    /\ authorityPool = <<"a1">>
    /\ reqs = [s \in 1..MaxInflight |-> Idle]
    /\ safetyScore = << >>
    /\ currentLocation = << >>
    /\ locationSharing = [t \in Tourists |-> TRUE]
    /\ geofences = << >>

\* ------------------------------------------------------------ POST /sos
\* the checks before the first write: 400, 404, or on to the writes (201)
PostSosCode(u, loc) ==
    IF SosLocationMissing(loc) THEN 400
    ELSE IF TouristFindOne(u) = Null THEN 404
    ELSE 201

\* new Alert({type: 'sos', ..., severity, status: 'active'})
NewSosAlert(u, sev) ==
    [type |-> "sos", touristId |-> TouristFindOne(u), status |-> "active",
     authorityId |-> Null, description |-> Absent,
     severity |-> IF sev = Absent THEN "critical" ELSE sev]

\* validation, Tourist.findOne and sosAlert.save()
PostSos(u, loc, sev) ==
    IF PostSosCode(u, loc) # 201
    THEN UNCHANGED vars
    ELSE /\ CanCreateAlert
         /\ \E s \in Slots :
              /\ FreeSlot(s)
              /\ reqs' = [reqs EXCEPT ![s] =
                            [op |-> "sos", pc |-> "save_tourist", user |-> u,
                             alert |-> nextAlert,
                             loaded |-> touristStatus[TouristFindOne(u)]]]
         /\ alerts' = alerts @@ (nextAlert :> NewSosAlert(u, sev))
         /\ nextAlert' = nextAlert + 1
         /\ UNCHANGED <<incidents, touristStatus, authorityPool, scoring>>

\* tourist.status = 'emergency'; tourist.save() writes the paths the
\* assignment modified: none when the loaded status already was emergency
\* variant: the handler that leaves the Tourist profile as it was
MarkEmergencySkipped(tid, loaded) == touristStatus

MarkEmergency(tid, loaded) ==
    IF loaded # "emergency" THEN [touristStatus EXCEPT ![tid] = "emergency"]
    ELSE touristStatus

PostSosSaveTourist(s) ==
    /\ reqs[s].op = "sos" /\ reqs[s].pc = "save_tourist"
    /\ touristStatus' = MarkEmergency(TouristFindOne(reqs[s].user), reqs[s].loaded)
    /\ reqs' = [reqs EXCEPT ![s].pc = "notify"]
    /\ UNCHANGED <<alerts, nextAlert, incidents, authorityPool, scoring>>

\* a populate of the saved alert or tourist.save() rejects: the handler's
\* catch answers 500, and nothing in it touches the alert already saved
PostSosSaveTouristRejects(s) ==
    /\ reqs[s].op = "sos" /\ reqs[s].pc = "save_tourist"
    /\ reqs' = [reqs EXCEPT ![s] = Idle]
    /\ UNCHANGED <<alerts, nextAlert, incidents, touristStatus, authorityPool, scoring>>

\* variant: notifyAuthorities without its try/catch
notifyAuthoritiesUncaught(fault) == fault = NoFault

\* notifyAuthorities: its whole body is inside try/catch, the catch logs;
\* TRUE when the call returns to the handler, FALSE when it throws
notifyAuthorities(fault) == TRUE

\* notifyEmergencyContacts: likewise
notifyEmergencyContacts(fault) == TRUE

\* the answer after the two dispatches: 201, or 500 from the handler's catch
PostSosRespondCode(fa, fc) ==
    IF notifyAuthorities(fa) /\ notifyEmergencyContacts(fc) THEN 201 ELSE 500

\* the handler awaits both dispatches: it goes on to the response when the
\* promise of each has settled
DispatchSettled(fa, fc) == fa # Pending /\ fc # Pending

\* await notifyAuthorities; await notifyEmergencyContacts; the response
PostSosRespond(s, fa, fc) ==
    /\ reqs[s].op = "sos" /\ reqs[s].pc = "notify"
    /\ DispatchSettled(fa, fc)
    /\ PostSosRespondCode(fa, fc) \in {201, 500}
    /\ reqs' = [reqs EXCEPT ![s] = Idle]
    /\ UNCHANGED <<alerts, nextAlert, incidents, touristStatus, authorityPool, scoring>>

\* ------------------------------------------------------- POST /incident
\* fields: type, title and description all present, or one of them absent
PostIncidentCode(u, fields, loc) ==
    IF fields = Absent \/ loc = Absent THEN 400
    ELSE IF TouristFindOne(u) = Null THEN 404
    ELSE 201

\* the eFIRNumber a new Incident gets when it is first saved
GenerateEFIRNumber == Len(incidents) + 1

\* new Incident({reporterId, ..., severity: severity || 'medium', ...}), saved
\* variant: every incident gets the same number
NewIncidentSameNumber(u, sev) ==
    [reporterId |-> TouristFindOne(u),
     severity |-> IF sev = Absent THEN "medium" ELSE sev,
     assignedOfficer |-> Null,
     eFIRNumber |-> 1]

NewIncident(u, sev) ==
    [reporterId |-> TouristFindOne(u),
     severity |-> IF sev = Absent THEN "medium" ELSE sev,
     assignedOfficer |-> Null,
     eFIRNumber |-> GenerateEFIRNumber]

\* validation, Tourist.findOne and incident.save()
PostIncident(u, fields, loc, sev) ==
    IF PostIncidentCode(u, fields, loc) # 201
    THEN UNCHANGED vars
    ELSE /\ CanCreateAlert
         /\ Len(incidents) < MaxIncidents
         /\ \E s \in Slots :
              /\ FreeSlot(s)
              /\ reqs' = [reqs EXCEPT ![s] =
                            [op |-> "incident", pc |-> "save_alert", user |-> u,
                             incident |-> Len(incidents) + 1,
                             eFIRNumber |-> NewIncident(u, sev).eFIRNumber]]
         /\ incidents' = Append(incidents, NewIncident(u, sev))
         /\ UNCHANGED <<alerts, nextAlert, touristStatus, authorityPool, scoring>>

\* new Alert({type: 'incident', ..., severity: incident.severity, status: 'active'})
\* variant: the alert built with the default severity
NewIncidentAlertMedium(u, i) ==
    [type |-> "incident", touristId |-> TouristFindOne(u), status |-> "active",
     authorityId |-> Null, description |-> "body",
     severity |-> "medium"]

NewIncidentAlert(u, i) ==
    [type |-> "incident", touristId |-> TouristFindOne(u), status |-> "active",
     authorityId |-> Null, description |-> "body",
     severity |-> incidents[i].severity]

\* the answer of the handler once incident.save() is done
PostIncidentSaveAlertCode(fault) == IF fault = NoFault THEN 201 ELSE 500

\* the corresponding alert: alert.save(); when it rejects the handler's catch
\* answers 500 and the handler is done
PostIncidentSaveAlert(s, fault) ==
    /\ reqs[s].op = "incident" /\ reqs[s].pc = "save_alert"
    /\ IF PostIncidentSaveAlertCode(fault) = 201
       THEN /\ alerts' = alerts @@
                   (nextAlert :> NewIncidentAlert(reqs[s].user, reqs[s].incident))
            /\ nextAlert' = nextAlert + 1
            /\ reqs' = [reqs EXCEPT ![s] =
                          [op |-> "incident", pc |-> "assign", user |-> reqs[s].user,
                           incident |-> reqs[s].incident, alert |-> nextAlert,
                           eFIRNumber |-> reqs[s].eFIRNumber]]
       ELSE /\ reqs' = [reqs EXCEPT ![s] = Idle]
            /\ UNCHANGED <<alerts, nextAlert>>
    /\ UNCHANGED <<incidents, touristStatus, authorityPool, scoring>>

\* assignToAuthority: the first available authority, if there is one; a
\* rejected Authority.find or incident.save() is caught and logged, and the
\* stored incident stays as it was
\* variant: the second save assigns a new number
assignToAuthorityRenumbering(i, fault) ==
    IF fault = NoFault /\ Len(authorityPool) > 0
    THEN [incidents EXCEPT ![i].assignedOfficer = authorityPool[1],
                           ![i].eFIRNumber = GenerateEFIRNumber]
    ELSE incidents

\* variant: the assignment that takes the last of the list
assignToAuthorityLast(i, fault) ==
    IF fault = NoFault /\ Len(authorityPool) > 0
    THEN [incidents EXCEPT ![i].assignedOfficer = authorityPool[Len(authorityPool)]]
    ELSE incidents

assignToAuthority(i, fault) ==
    IF fault = NoFault /\ Len(authorityPool) > 0
    THEN [incidents EXCEPT ![i].assignedOfficer = authorityPool[1]]
    ELSE incidents

\* assignToAuthority catches whatever is thrown inside it, so the handler
\* goes on to its 201 answer
\* variant: assignToAuthority without its try/catch
PostIncidentAssignCodeUncaught(fault) == IF fault = NoFault THEN 201 ELSE 500

PostIncidentAssignCode(fault) == 201

\* eFIRNumber: incident.eFIRNumber in the answer, read from the handler's document
PostIncidentResponse(s) == [eFIRNumber |-> reqs[s].eFIRNumber]

\* await assignToAuthority(incident); 201
PostIncidentAssign(s, fault) ==
    /\ reqs[s].op = "incident" /\ reqs[s].pc = "assign"
    /\ IF PostIncidentAssignCode(fault) = 201
       THEN incidents' = assignToAuthority(reqs[s].incident, fault)
       ELSE UNCHANGED incidents
    /\ reqs' = [reqs EXCEPT ![s] = Idle]
    /\ UNCHANGED <<alerts, nextAlert, touristStatus, authorityPool, scoring>>

\* ---------------------------------------------------------- POST /alerts
PostAlertCode(type, message, loc) ==
    IF type = Absent \/ message = Absent \/ loc = Absent THEN 400 ELSE 201

\* new Alert({type, touristId, message, description, location, severity}):
\* status is not among the fields taken from the body, so the document gets
\* the schema's default
\* variant: the constructor that also copies status from the request body
NewAlertFromBody(u, type, desc, sev, bodyStatus) ==
    [type |-> type,
     touristId |-> IF userType(u) = "tourist" THEN TouristFindOne(u) ELSE Null,
     status |-> IF bodyStatus = Absent THEN AlertDefaultStatus ELSE bodyStatus,
     authorityId |-> Null,
     description |-> desc,
     severity |-> IF sev = Absent THEN "medium" ELSE sev]

NewAlert(u, type, desc, sev, bodyStatus) ==
    [type |-> type,
     touristId |-> IF userType(u) = "tourist" THEN TouristFindOne(u) ELSE Null,
     status |-> AlertDefaultStatus, authorityId |-> Null,
     description |-> desc,
     severity |-> IF sev = Absent THEN "medium" ELSE sev]

PostAlert(u, type, message, loc, desc, sev, bodyStatus) ==
    IF PostAlertCode(type, message, loc) # 201
    THEN UNCHANGED vars
    ELSE /\ CanCreateAlert
         /\ alerts' = alerts @@ (nextAlert :> NewAlert(u, type, desc, sev, bodyStatus))
         /\ nextAlert' = nextAlert + 1
         /\ UNCHANGED <<incidents, touristStatus, authorityPool, reqs, scoring>>

\* ------------------------------------------- PUT /alerts/:id/status (alert router)
PutAlertStatusCode(u, a, st) ==
    IF userType(u) # "authority" THEN 403
    ELSE IF st \notin AlertRouterStatuses THEN 400
    ELSE IF a \notin DOMAIN alerts THEN 404
    ELSE 200

\* Alert.findByIdAndUpdate(alertId, { status, updatedAt })
\* variant: the update that stores acknowledged whatever status is requested
AlertRouterUpdateAcknowledged(a, st) == [alerts EXCEPT ![a].status = "acknowledged"]

AlertRouterUpdate(a, st) == [alerts EXCEPT ![a].status = st]

PutAlertStatus(u, a, st) ==
    IF PutAlertStatusCode(u, a, st) # 200
    THEN UNCHANGED vars
    ELSE /\ alerts' = AlertRouterUpdate(a, st)
         /\ UNCHANGED <<nextAlert, incidents, touristStatus, authorityPool, reqs, scoring>>

\* --------------------------------------- PUT /alerts/:id/status (authority router)
\* no role check: for a caller without an Authority profile authority._id
\* throws, and the catch answers 500
PutAuthorityAlertStatusCode(u, a, st) ==
    IF st \notin AuthorityRouterStatuses THEN 400
    ELSE IF AuthorityFindOne(u) = Null THEN 500
    ELSE IF a \notin DOMAIN alerts THEN 404
    ELSE 200

\* Alert.findByIdAndUpdate(alertId, { status, authorityId, updatedAt })
AuthorityRouterUpdate(a, st, auth) ==
    [alerts EXCEPT ![a].status = st, ![a].authorityId = auth]

PutAuthorityAlertStatus(u, a, st) ==
    IF PutAuthorityAlertStatusCode(u, a, st) # 200
    THEN UNCHANGED vars
    ELSE /\ alerts' = AuthorityRouterUpdate(a, st, AuthorityFindOne(u))
         /\ UNCHANGED <<nextAlert, incidents, touristStatus, authorityPool, reqs, scoring>>

\* ------------------------------------------------------ PUT /sos/:id/status
\* role check, status check, Alert.findOne({ _id, type: 'sos' }); 200 when
\* the handler goes on to its writes
\* variant: the lookup without type: 'sos' in its filter
PutSosStatusCodeAnyType(u, a, st) ==
    IF userType(u) # "authority" THEN 403
    ELSE IF st \notin SosStatuses THEN 400
    ELSE IF a \notin DOMAIN alerts THEN 404
    ELSE 200

PutSosStatusCode(u, a, st) ==
    IF userType(u) # "authority" THEN 403
    ELSE IF st \notin SosStatuses THEN 400
    ELSE IF a \notin DOMAIN alerts \/ alerts[a].type # "sos" THEN 404
    ELSE 200

\* sosAlert.status = status; sosAlert.authorityId = authority._id;
\* if (responseNotes) sosAlert.description = responseNotes:
\* an assignment marks its path modified when it changes the loaded value
ModifiedPaths(loaded, st, auth, notes) ==
    [status |-> st # loaded.status,
     authorityId |-> auth # loaded.authorityId,
     description |-> notes # Absent /\ notes # loaded.description]

\* the checks, the read of the alert and the assignments to the copy
PutSosStatus(u, a, st, notes) ==
    IF PutSosStatusCode(u, a, st) # 200
    THEN UNCHANGED vars
    ELSE /\ \E s \in Slots :
              /\ FreeSlot(s)
              /\ reqs' = [reqs EXCEPT ![s] =
                            [op |-> "sosStatus", pc |-> "save", user |-> u, alert |-> a,
                             status |-> st, notes |-> notes,
                             loaded |-> alerts[a].status,
                             touristId |-> alerts[a].touristId,
                             modified |-> ModifiedPaths(alerts[a], st,
                                                        AuthorityFindOne(u), notes)]]
         /\ UNCHANGED <<alerts, nextAlert, incidents, touristStatus, authorityPool, scoring>>

\* sosAlert.save(): an update of the stored document that sets the modified
\* paths; the other paths are not sent
SosSave(stored, modified, st, auth, notes) ==
    [stored EXCEPT
        !.status = IF modified.status THEN st ELSE @,
        !.authorityId = IF modified.authorityId THEN auth ELSE @,
        !.description = IF modified.description THEN notes ELSE @]

\* the save; for a status other than resolved the 200 follows it.  When the
\* document was deleted meanwhile save() rejects (500), or, with an older
\* Mongoose, matches nothing and resolves
PutSosStatusSave(s) ==
    /\ reqs[s].op = "sosStatus" /\ reqs[s].pc = "save"
    /\ LET r == reqs[s]
           a == r.alert
       IN  /\ alerts' = IF a \in DOMAIN alerts
                        THEN [alerts EXCEPT ![a] =
                                 SosSave(alerts[a], r.modified, r.status,
                                         AuthorityFindOne(r.user), r.notes)]
                        ELSE alerts
           /\ \/ /\ a \notin DOMAIN alerts \/ r.status # "resolved"
                 /\ reqs' = [reqs EXCEPT ![s] = Idle]
              \/ /\ r.status = "resolved"
                 /\ reqs' = [reqs EXCEPT ![s].pc = "update_tourist"]
    /\ UNCHANGED <<nextAlert, incidents, touristStatus, authorityPool, scoring>>

\* Tourist.findByIdAndUpdate(sosAlert.touristId, { status: 'active' })
ResolveTourist(tid) ==
    IF tid \in Tourists THEN [touristStatus EXCEPT ![tid] = "active"] ELSE touristStatus

\* if (status === 'resolved') the tourist update, then 200
PutSosStatusTourist(s) ==
    /\ reqs[s].op = "sosStatus" /\ reqs[s].pc = "update_tourist"
    /\ touristStatus' = ResolveTourist(reqs[s].touristId)
    /\ reqs' = [reqs EXCEPT ![s] = Idle]
    /\ UNCHANGED <<alerts, nextAlert, incidents, authorityPool, scoring>>

\* ------------------------------------------------------- DELETE /alerts/:id
DeleteAlertCode(u, a) ==
    IF userType(u) # "authority" THEN 403
    ELSE IF a \notin DOMAIN alerts THEN 404
    ELSE 200

DeleteAlert(u, a) ==
    IF DeleteAlertCode(u, a) # 200
    THEN UNCHANGED vars
    ELSE /\ alerts' = [i \in DOMAIN alerts \ {a} |-> alerts[i]]
         /\ UNCHANGED <<nextAlert, incidents, touristStatus, authorityPool, reqs, scoring>>

\* -------------------------------------------------- POST /location, scoring
\* Positions lie on one meridian: a position is its latitude, and the
\* haversine distance of two of them is proportional to the difference of
\* their latitudes; distances and radii are counted in that unit.
calculateDistance(lat1, lng1, lat2, lng2) ==
    IF lat1 >= lat2 THEN lat1 - lat2 ELSE lat2 - lat1

\* GeoFence.find({type: 'danger', isActive: true})
DangerZones == SelectSeq(geofences, LAMBDA z : z.type = "danger" /\ z.isActive)

\* variant: the near test not chained to the inside test with else
ZonePenaltyBoth(distance, radius) ==
    (IF distance <= radius THEN 30 ELSE 0) + (IF distance <= radius * 2 THEN 15 ELSE 0)

\* if (distance <= zone.radius) score -= 30; else if (distance <= zone.radius * 2) score -= 15
ZonePenalty(distance, radius) ==
    IF distance <= radius THEN 30
    ELSE IF distance <= radius * 2 THEN 15
    ELSE 0

\* for (const zone of dangerZones) { ... }
RECURSIVE ZoneLoop(_, _, _, _)
ZoneLoop(score, zones, lat, lng) ==
    IF zones = << >> THEN score
    ELSE ZoneLoop(score - ZonePenalty(calculateDistance(lat, lng, Head(zones).center, lng),
                                      Head(zones).radius),
                  Tail(zones), lat, lng)

\* variant: the night without its first and its last hour
IsNightStrict(hour) == hour > 22 \/ hour < 5

\* hour >= 22 || hour <= 5
IsNight(hour) == hour >= 22 \/ hour <= 5

\* Math.max(0, Math.min(100, score))
Clamp(score) == IF score < 0 THEN 0 ELSE IF score > 100 THEN 100 ELSE score

\* GeoFence.find or Alert.find rejects
ScoreFaults == {NoFault, "zones", "alerts"}

\* variant: the score returned without the final Math.max / Math.min
calculateSafetyScoreUnclamped(lat, lng, hour, recentAlerts, fault) ==
    IF fault # NoFault THEN 85
    ELSE ZoneLoop(85, DangerZones, lat, lng)
            - (IF IsNight(hour) THEN 10 ELSE 0) - recentAlerts * 5

\* calculateSafetyScore(lat, lng), with what it reads from its environment:
\* the hour of the clock, recentAlerts.length, and whether a lookup rejects
\* (the catch returns 85)
\* variant: a bonus by day in the place of the penalty at night
calculateSafetyScoreDayBonus(lat, lng, hour, recentAlerts, fault) ==
    IF fault # NoFault THEN 85
    ELSE Clamp(ZoneLoop(85, DangerZones, lat, lng)
                  + (IF IsNight(hour) THEN 0 ELSE 10) - recentAlerts * 5)

calculateSafetyScore(lat, lng, hour, recentAlerts, fault) ==
    IF fault # NoFault THEN 85
    ELSE Clamp(ZoneLoop(85, DangerZones, lat, lng)
                  - (IF IsNight(hour) THEN 10 ELSE 0) - recentAlerts * 5)

\* variant: calculateSafetyScore without its try/catch
calculateSafetyScoreRaisesUncaught(fault) == fault # NoFault

\* the whole body of calculateSafetyScore is inside try/catch: it never raises
calculateSafetyScoreRaises(fault) == FALSE

\* Alert.find({location: {$near ...}, createdAt: {$gte ...}, type: {$in:
\* ['incident', 'sos']}}).length: the alerts of these types that are near and
\* recent, any number of those stored
RecentAlertCounts ==
    0..Cardinality({a \in DOMAIN alerts : alerts[a].type \in {"incident", "sos"}})

\* $maxDistance: 1000, in metres
MaxDistanceMeters == 1000
\* Date.now() - 24 * 60 * 60 * 1000, in hours
RecentHours == 24

\* the 2dsphere index of Alert.location that a $near query needs
AlertLocationIndexed == TRUE

\* variant: the lookup that leaves out the alerts no longer active
RecentAlertsActive(lat, lng, now) ==
    {a \in DOMAIN alerts :
        /\ calculateDistance(lat, lng, alerts[a].location, lng) <= MaxDistanceMeters
        /\ alerts[a].createdAt >= now - RecentHours
        /\ alerts[a].type \in {"incident", "sos"}
        /\ alerts[a].status = "active"}

\* Alert.find({location: {$near: {..., $maxDistance: 1000}}, createdAt: {$gte:
\* now - 24 h}, type: {$in: ['incident', 'sos']}}) over alerts that carry their
\* location (a latitude in metres along the meridian) and their createdAt (in
\* hours)
RecentAlerts(lat, lng, now) ==
    {a \in DOMAIN alerts :
        /\ calculateDistance(lat, lng, alerts[a].location, lng) <= MaxDistanceMeters
        /\ alerts[a].createdAt >= now - RecentHours
        /\ alerts[a].type \in {"incident", "sos"}}

\* what the lookup of the recent alerts does: it rejects without the index
RecentAlertsFault == IF AlertLocationIndexed THEN NoFault ELSE "alerts"

\* !lat || !lng (0 and a missing field are falsy), Tourist.findOne, the
\* handler's catch
PostLocationCode(u, lat, lng, fault) ==
    IF lat = 0 \/ lng = 0 THEN 400
    ELSE IF TouristFindOne(u) = Null THEN 404
    ELSE IF calculateSafetyScoreRaises(fault) THEN 500
    ELSE 200

\* tourist.currentLocation = ...; tourist.safetyScore = await
\* calculateSafetyScore(lat, lng); await tourist.save()
PostLocation(u, lat, lng, hour, recentAlerts, fault) ==
    IF PostLocationCode(u, lat, lng, fault) # 200
    THEN UNCHANGED vars
    ELSE /\ currentLocation' = (TouristFindOne(u) :> lat) @@ currentLocation
         /\ safetyScore' = (TouristFindOne(u) :>
                               calculateSafetyScore(lat, lng, hour, recentAlerts, fault))
                            @@ safetyScore
         /\ UNCHANGED <<alerts, nextAlert, incidents, touristStatus, authorityPool,
                        reqs, geofences, locationSharing>>

\* The same handler with its awaits: Tourist.findOne and the assignments to
\* the loaded document, then calculateSafetyScore and tourist.save()
PostLocationFind(u, lat, lng) ==
    IF PostLocationCode(u, lat, lng, NoFault) # 200
    THEN UNCHANGED vars
    ELSE /\ \E s \in Slots :
              /\ FreeSlot(s)
              /\ reqs' = [reqs EXCEPT ![s] =
                            [op |-> "location", pc |-> "save", user |-> u, lat |-> lat,
                             lng |-> lng, loaded |-> touristStatus[TouristFindOne(u)]]]
         /\ UNCHANGED <<alerts, nextAlert, incidents, touristStatus, authorityPool, scoring>>

\* variant: a save that writes the whole loaded document
LocationSaveWholeDocument(tid, loaded) == [touristStatus EXCEPT ![tid] = loaded]

\* tourist.save() writes the modified paths, currentLocation and safetyScore:
\* the status of the stored profile is not sent
LocationSave(tid, loaded) == touristStatus

PostLocationSave(s, hour, recentAlerts, fault) ==
    /\ reqs[s].op = "location" /\ reqs[s].pc = "save"
    /\ LET tid == TouristFindOne(reqs[s].user)
       IN /\ currentLocation' = (tid :> reqs[s].lat) @@ currentLocation
          /\ safetyScore' = (tid :> calculateSafetyScore(reqs[s].lat, reqs[s].lng, hour,
                                                        recentAlerts, fault))
                              @@ safetyScore
          /\ touristStatus' = LocationSave(tid, reqs[s].loaded)
    /\ reqs' = [reqs EXCEPT ![s] = Idle]
    /\ UNCHANGED <<alerts, nextAlert, incidents, authorityPool, geofences, locationSharing>>

\* --------------------------------------------------- POST /location-sharing
EnabledInputs == BOOLEAN

PostLocationSharingCode(u) == IF TouristFindOne(u) = Null THEN 404 ELSE 200

\* tourist.locationSharing = enabled; tourist.save()
PostLocationSharing(u, enabled) ==
    IF PostLocationSharingCode(u) # 200 THEN UNCHANGED vars
    ELSE /\ locationSharing' = [locationSharing EXCEPT ![TouristFindOne(u)] = enabled]
         /\ UNCHANGED <<alerts, nextAlert, incidents, touristStatus, authorityPool, reqs,
                        safetyScore, currentLocation, geofences>>

\* ------------------------------------------------ zones (routes/geo.js)
\* A GeoFence document is [type, isActive, center, radius]: center is the
\* latitude of the zone's centre on the meridian of calculateDistance, radius
\* a whole number of distance units.  The collection is kept in creation
\* order.  Every zone handler performs one database operation, so an id lives
\* only inside one request: the id of a request is the position of the
\* document it names, and a position past the end names no document.
\*
\* Numbers of a request that the code passes through parseInt are fixed-point
\* with one binary digit: x stands for x/2.
CenterInputs == {0, 2, 4, 91}       \* 0: no center in the body
RadiusInputs == {-2, 0, 1, 2}       \* -1, 0 or no radius, 0.5, 1
ZoneTypeInputs == {Absent, "danger", "safe"}
ActiveInputs == {Absent, "true", "false"}

\* parseInt of a number given in halves: the digits before the point
parseInt(x) == IF x >= 0 THEN x \div 2 ELSE -((-x) \div 2)

\* isActive of a GeoFence document built without an isActive field
GeoFenceDefaultActive == TRUE

\* the validators geoFence.save() runs on radius and center
GeoFenceValidates(z) == z.radius > 0 /\ z.center \in -90..90

\* !name || !type || !center || !radius || !region; fields stands for name
\* and region
ZoneFieldsMissing(fields, type, center, radius) ==
    fields = Absent \/ type = Absent \/ center = 0 \/ radius = 0

\* new GeoFence({...}) of POST /fences
NewFence(type, center, radius) ==
    [type |-> type, isActive |-> GeoFenceDefaultActive, center |-> center,
     radius |-> parseInt(radius)]

PostFencesCode(u, fields, type, center, radius) ==
    IF userType(u) # "authority" THEN 403
    ELSE IF ZoneFieldsMissing(fields, type, center, radius) THEN 400
    ELSE IF AuthorityFindOne(u) = Null THEN 500
    ELSE IF ~GeoFenceValidates(NewFence(type, center, radius)) THEN 500
    ELSE 201

PostFences(u, fields, type, center, radius) ==
    IF PostFencesCode(u, fields, type, center, radius) # 201 THEN UNCHANGED vars
    ELSE /\ Len(geofences) < MaxZones
         /\ geofences' = Append(geofences, NewFence(type, center, radius))
         /\ UNCHANGED <<alerts, nextAlert, incidents, touristStatus, authorityPool,
                        reqs, safetyScore, currentLocation, locationSharing>>

\* updateData of PUT /fences/:id: the truthy fields of the body
UpdateData(z, body) ==
    [type |-> IF body.type # Absent THEN body.type ELSE z.type,
     isActive |-> IF body.isActive # Absent THEN body.isActive = "true" ELSE z.isActive,
     center |-> IF body.center # 0 THEN body.center ELSE z.center,
     radius |-> IF body.radius # 0 THEN parseInt(body.radius) ELSE z.radius]

\* variant: the handler without its test of the document the update returns
PutFencesCodeUnchecked(u, id) ==
    IF userType(u) # "authority" THEN 403
    ELSE 200

PutFencesCode(u, id) ==
    IF userType(u) # "authority" THEN 403
    ELSE IF id \notin DOMAIN geofences THEN 404
    ELSE 200

\* GeoFence.findByIdAndUpdate(id, updateData, { new: true }): no validator
\* runs, and an id that names no document updates nothing
FindByIdAndUpdate(id, body) ==
    IF id \in DOMAIN geofences
    THEN [geofences EXCEPT ![id] = UpdateData(geofences[id], body)]
    ELSE geofences

PutFences(u, id, body) ==
    IF PutFencesCode(u, id) # 200 THEN UNCHANGED vars
    ELSE /\ geofences' = FindByIdAndUpdate(id, body)
         /\ UNCHANGED <<alerts, nextAlert, incidents, touristStatus, authorityPool,
                        reqs, safetyScore, currentLocation, locationSharing>>

DeleteFencesCode(u, id) ==
    IF userType(u) # "authority" THEN 403
    ELSE IF id \notin DOMAIN geofences THEN 404
    ELSE 200

\* GeoFence.findByIdAndDelete(id)
FindByIdAndDelete(id) ==
    [i \in 1..(Len(geofences) - 1) |->
        IF i < id THEN geofences[i] ELSE geofences[i + 1]]

DeleteFences(u, id) ==
    IF DeleteFencesCode(u, id) # 200 THEN UNCHANGED vars
    ELSE /\ geofences' = FindByIdAndDelete(id)
         /\ UNCHANGED <<alerts, nextAlert, incidents, touristStatus, authorityPool,
                        reqs, safetyScore, currentLocation, locationSharing>>

\* ------------------------------------- zones (authority router, part_002)
\* POST /geofences stores the radius of the body as it is; the bodies of the
\* model carry whole radii
WholeRadiusInputs == {-2, 0, 2}     \* -1, 0 or no radius, 1

\* new GeoFence({...}) of POST /geofences
NewGeofence(type, center, radius) ==
    [type |-> type, isActive |-> GeoFenceDefaultActive, center |-> center,
     radius |-> radius \div 2]

\* variant: the document built without its createdBy
PostGeofencesCodeNoCreator(u, fields, type, center, radius) ==
    IF ZoneFieldsMissing(fields, type, center, radius) THEN 400
    ELSE IF ~GeoFenceValidates(NewGeofence(type, center, radius)) THEN 500
    ELSE 201

\* the handler has no test of the role; authority._id throws on the null that
\* Authority.findOne returns for a user without an Authority profile
PostGeofencesCode(u, fields, type, center, radius) ==
    IF ZoneFieldsMissing(fields, type, center, radius) THEN 400
    ELSE IF AuthorityFindOne(u) = Null THEN 500
    ELSE IF ~GeoFenceValidates(NewGeofence(type, center, radius)) THEN 500
    ELSE 201

PostGeofences(u, fields, type, center, radius) ==
    IF PostGeofencesCode(u, fields, type, center, radius) # 201 THEN UNCHANGED vars
    ELSE /\ Len(geofences) < MaxZones
         /\ geofences' = Append(geofences, NewGeofence(type, center, radius))
         /\ UNCHANGED <<alerts, nextAlert, incidents, touristStatus, authorityPool,
                        reqs, safetyScore, currentLocation, locationSharing>>

\* ------------------------------------------------------------ zone queries
RECURSIVE Reverse(_)
Reverse(q) == IF q = << >> THEN << >> ELSE Append(Reverse(Tail(q)), Head(q))

\* const { type, region, active = true } = req.query: a request without the
\* parameter gets the boolean true, a request with it gets its string
BooleanTrue == "true:boolean"
ActiveParameter(active) == IF active = Absent THEN BooleanTrue ELSE active

\* query.isActive = active === 'true'
FencesQueryActive(active) == ActiveParameter(active) = "true"

\* GET /fences: GeoFence.find(query).sort({ createdAt: -1 })
GetFences(type, active) ==
    Reverse(SelectSeq(geofences, LAMBDA z :
        /\ type # Absent => z.type = type
        /\ z.isActive = FencesQueryActive(active)))

\* GET /geofences: GeoFence.find({ isActive: true, type }).sort({ createdAt: -1 })
GetGeofences(type) ==
    Reverse(SelectSeq(geofences, LAMBDA z :
        /\ type # Absent => z.type = type
        /\ z.isActive))

\* GeoFence.find({ isActive: true }) of check-location and nearby
ActiveFences == SelectSeq(geofences, LAMBDA z : z.isActive)

\* !lat || !lng on the numbers of the body (0 is falsy)
CheckLocationCode(lat, lng) == IF lat = 0 \/ lng = 0 THEN 400 ELSE 200

\* variant: a zone contains the points strictly inside its radius
IsInsideStrict(distance, radius) == distance < radius

\* if (distance <= fence.radius)
IsInside(distance, radius) == distance <= radius

\* results of check-location: the fences whose distance passes the test
RECURSIVE CheckLoop(_, _, _)
CheckLoop(fences, lat, lng) ==
    IF fences = << >> THEN << >>
    ELSE LET fence == Head(fences)
             distance == calculateDistance(lat, lng, fence.center, lng)
             rest == CheckLoop(Tail(fences), lat, lng)
         IN IF IsInside(distance, fence.radius)
            THEN <<[geoFence |-> fence, distance |-> distance, isInside |-> TRUE]>> \o rest
            ELSE rest

\* variant: danger of any active zone, containing or not
IsInDangerZoneAnywhere(results) ==
    \E i \in DOMAIN ActiveFences : ActiveFences[i].type = "danger"

\* results.some(r => r.geoFence.type === 'danger')
IsInDangerZone(results) ==
    \E i \in DOMAIN results : results[i].geoFence.type = "danger"

\* the data of the answer of POST /check-location
CheckLocation(lat, lng) ==
    LET results == CheckLoop(ActiveFences, lat, lng)
    IN [geoFences |-> results, isInDangerZone |-> IsInDangerZone(results)]

\* !lat || !lng on the strings of the query: a parameter that is present,
\* '0' included, is truthy
NearbyCode(hasLat, hasLng) == IF ~hasLat \/ ~hasLng THEN 400 ELSE 200

\* nearbyFences.sort((a, b) => a.distance - b.distance): the sort is stable
RECURSIVE InsertByDistance(_, _)
InsertByDistance(r, sorted) ==
    IF sorted = << >> THEN <<r>>
    ELSE IF Head(sorted).distance <= r.distance
         THEN <<Head(sorted)>> \o InsertByDistance(r, Tail(sorted))
         ELSE <<r>> \o sorted

RECURSIVE SortByDistance(_)
SortByDistance(q) ==
    IF q = << >> THEN << >>
    ELSE InsertByDistance(q[Len(q)], SortByDistance(SubSeq(q, 1, Len(q) - 1)))

\* const searchRadius = parseInt(radius), here in halves as its argument
SearchRadius(radius) == 2 * parseInt(radius)

\* the loop of GET /nearby; lat and radius are the numbers of the query in
\* halves, and so is each distance
RECURSIVE NearbyLoop(_, _, _, _)
NearbyLoop(fences, lat, lng, radius) ==
    IF fences = << >> THEN << >>
    ELSE LET fence == Head(fences)
             distance == calculateDistance(lat, lng, 2 * fence.center, lng)
             rest == NearbyLoop(Tail(fences), lat, lng, radius)
         IN IF distance <= SearchRadius(radius)
            THEN <<[fence |-> fence, distance |-> distance]>> \o rest
            ELSE rest

\* the data of the answer of GET /nearby
NearbyFences(lat, lng, radius) ==
    SortByDistance(NearbyLoop(ActiveFences, lat, lng, radius))

\* ------------------------------------------------------------ reads of alerts
\* sort({ createdAt: -1 }): the _ids, the latest created first
RECURSIVE SortByCreatedAtDesc(_)
SortByCreatedAtDesc(ids) ==
    IF ids = {} THEN << >>
    ELSE LET latest == CHOOSE x \in ids : \A y \in ids : y <= x
         IN  <<latest>> \o SortByCreatedAtDesc(ids \ {latest})

\* .limit(limit).skip((page - 1) * limit)
Paginate(found, page, limit) ==
    LET first == (page - 1) * limit + 1
        last == IF page * limit < Len(found) THEN page * limit ELSE Len(found)
    IN  SubSeq(found, first, last)

PageInputs == {1, 2}
LimitInputs == {1, 20}
StatusFilterInputs == {Absent, "active", "resolved"}
SeverityFilterInputs == {Absent, "medium"}

\* the query of GET /alerts: the filters of the query string, and for a
\* tourist query.touristId = tourist._id
\* variant: the query built from the filters of the query string only
AlertsQueryUnscoped(u, type, status, severity) ==
    {a \in DOMAIN alerts :
        /\ type # Absent => alerts[a].type = type
        /\ status # Absent => alerts[a].status = status
        /\ severity # Absent => alerts[a].severity = severity}

AlertsQuery(u, type, status, severity) ==
    {a \in DOMAIN alerts :
        /\ type # Absent => alerts[a].type = type
        /\ status # Absent => alerts[a].status = status
        /\ severity # Absent => alerts[a].severity = severity
        /\ userType(u) = "tourist" => alerts[a].touristId = TouristFindOne(u)}

\* GET /alerts (alert router): the _ids of the documents answered
GetAlerts(u, type, status, severity, page, limit) ==
    Paginate(SortByCreatedAtDesc(AlertsQuery(u, type, status, severity)), page, limit)

\* GET /alerts/:id: 404 for no document; for a tourist 403 when the subject
\* of the alert is another profile, and alert.touristId._id throws for an
\* alert without a subject (500 from the catch)
GetAlertByIdCode(u, a) ==
    IF a \notin DOMAIN alerts THEN 404
    ELSE IF userType(u) # "tourist" THEN 200
    ELSE IF alerts[a].touristId = Null THEN 500
    ELSE IF alerts[a].touristId # TouristFindOne(u) THEN 403
    ELSE 200

\* the answer: the document with 200, no document with an error
GetAlertById(u, a) ==
    [code |-> GetAlertByIdCode(u, a),
     data |-> IF GetAlertByIdCode(u, a) = 200 THEN alerts[a] ELSE Null]

\* GET /alerts (tourist router): 404 without a Tourist profile
GetTouristAlertsCode(u) == IF TouristFindOne(u) = Null THEN 404 ELSE 200

\* Alert.find({ touristId: tourist._id }).sort({ createdAt: -1 }).limit(50)
GetTouristAlerts(u) ==
    IF GetTouristAlertsCode(u) # 200 THEN << >>
    ELSE Paginate(SortByCreatedAtDesc(
                     {a \in DOMAIN alerts : alerts[a].touristId = TouristFindOne(u)}),
                  1, 50)

\* ------------------------------------------------------------ specification
AlertIds == 1..MaxAlerts

\* a request arrives, from one of the given users with a body drawn from the
\* given inputs
Requests(users, types, sevs, descs) ==
    \/ \E u \in users, loc \in LocationInputs, sev \in sevs : PostSos(u, loc, sev)
    \/ \E u \in users, f \in {Absent, "ok"}, loc \in {Absent, "ok"}, sev \in sevs :
          PostIncident(u, f, loc, sev)
    \/ \E u \in users, ty \in types, m \in {Absent, "ok"}, loc \in {Absent, "ok"},
          d \in descs, sev \in sevs, bs \in BodyStatusInputs :
          PostAlert(u, ty, m, loc, d, sev, bs)
    \/ \E u \in users, a \in AlertIds, st \in StatusInputs : PutAlertStatus(u, a, st)
    \/ \E u \in users, a \in AlertIds, st \in StatusInputs : PutAuthorityAlertStatus(u, a, st)
    \/ \E u \in users, a \in AlertIds, st \in StatusInputs, n \in NotesInputs :
          PutSosStatus(u, a, st, n)
    \/ \E u \in users, a \in AlertIds : DeleteAlert(u, a)

\* a suspended handler resumes; the collaborators fail in the given ways
Continue(saveFaults, assignFaults) ==
    \/ \E s \in Slots : PostSosSaveTourist(s)
    \/ \E s \in Slots, fa \in AuthorityDispatchFaults, fc \in ContactDispatchFaults :
          PostSosRespond(s, fa, fc)
    \/ \E s \in Slots, f \in saveFaults : PostIncidentSaveAlert(s, f)
    \/ \E s \in Slots, f \in assignFaults : PostIncidentAssign(s, f)
    \/ \E s \in Slots : PutSosStatusSave(s)
    \/ \E s \in Slots : PutSosStatusTourist(s)

\* Handlers interleave at their awaits; the requests are those of one tourist
\* and one authority.  The lifecycle reads neither the severity nor the
\* description given at creation, so both are left out of the bodies.
Next == Requests({"t1", "a1"}, {Absent, "sos"}, {Absent}, {Absent}) \/ Continue({NoFault}, {NoFault})

Spec == Init /\ [][Next]_vars

\* Requests handled one at a time, as units of work: a request of any user
\* arrives only when no handler is suspended.
SerialRequests(users, types, sevs, descs) ==
    \/ \E u \in users, loc \in LocationInputs, sev \in sevs :
          ~Busy /\ PostSos(u, loc, sev)
    \/ \E u \in users, f \in {Absent, "ok"}, loc \in {Absent, "ok"}, sev \in sevs :
          ~Busy /\ PostIncident(u, f, loc, sev)
    \/ \E u \in users, ty \in types, m \in {Absent, "ok"}, loc \in {Absent, "ok"},
          d \in descs, sev \in sevs, bs \in BodyStatusInputs :
          ~Busy /\ PostAlert(u, ty, m, loc, d, sev, bs)
    \/ \E u \in users, a \in AlertIds, st \in StatusInputs :
          ~Busy /\ PutAlertStatus(u, a, st)
    \/ \E u \in users, a \in AlertIds, st \in StatusInputs :
          ~Busy /\ PutAuthorityAlertStatus(u, a, st)
    \/ \E u \in users, a \in AlertIds, st \in StatusInputs, n \in NotesInputs :
          ~Busy /\ PutSosStatus(u, a, st, n)
    \/ \E u \in users, a \in AlertIds : ~Busy /\ DeleteAlert(u, a)

NextSeq == SerialRequests(Users, TypeInputs, {Absent}, {Absent}) \/ Continue({NoFault}, {NoFault})

SpecSeq == Init /\ [][NextSeq]_vars

\* SOS activations, status updates through the three endpoints and
\* deletions, handled one at a time.
NextSos ==
    \/ \E u \in Users, loc \in LocationInputs : ~Busy /\ PostSos(u, loc, Absent)
    \/ \E u \in Users, a \in AlertIds, st \in StatusInputs :
          ~Busy /\ PutAlertStatus(u, a, st)
    \/ \E u \in Users, a \in AlertIds, st \in StatusInputs :
          ~Busy /\ PutAuthorityAlertStatus(u, a, st)
    \/ \E u \in Users, a \in AlertIds, st \in StatusInputs, n \in NotesInputs :
          ~Busy /\ PutSosStatus(u, a, st, n)
    \/ \E u \in Users, a \in AlertIds : ~Busy /\ DeleteAlert(u, a)
    \/ \E s \in Slots : PostSosSaveTourist(s)
    \/ \E s \in Slots, fa \in AuthorityDispatchFaults, fc \in ContactDispatchFaults :
          PostSosRespond(s, fa, fc)
    \/ \E s \in Slots : PutSosStatusSave(s)
    \/ \E s \in Slots : PutSosStatusTourist(s)

SpecSos == Init /\ [][NextSos]_vars

\* The same requests, with an agent-status write of the SOS handler that may
\* fail.
NextSosFault == NextSos \/ \E s \in Slots : PostSosSaveTouristRejects(s)

SpecSosFault == Init /\ [][NextSosFault]_vars

\* Incident filing alone: filings of any user interleave at their awaits,
\* the alert write and the assignment may fail, and the pool of on-duty
\* authorities of an eligible department is empty or holds one authority.
InitIncident ==
    /\ alerts = << >>
    /\ nextAlert = 1
    /\ incidents = << >>
    /\ touristStatus = [t \in Tourists |-> "active"]
    /\ authorityPool \in {<< >>, <<"a1">>}
    /\ reqs = [s \in 1..MaxFilings |-> Idle]
    /\ safetyScore = << >>
    /\ currentLocation = << >>
    /\ locationSharing = [t \in Tourists |-> TRUE]
    /\ geofences = << >>

NextIncident ==
    \/ \E u \in Users, f \in {Absent, "ok"}, loc \in {Absent, "ok"}, sev \in SeverityInputs :
          PostIncident(u, f, loc, sev)
    \/ \E s \in Slots, f \in SaveFaults : PostIncidentSaveAlert(s, f)
    \/ \E s \in Slots, f \in AssignFaults : PostIncidentAssign(s, f)

SpecIncident == InitIncident /\ [][NextIncident]_vars

\* Incident filing over an Authority collection of up to MaxAuthorities
\* documents, on or off duty, of three departments: the pool is what the
\* lookup of assignToAuthority finds in it.
AuthorityInputs ==
    [id : {"a1", "a2", "a3"}, isOnDuty : BOOLEAN,
     department : EligibleDepartments \cup {"Fire Department"}]

AuthorityCollections ==
    {c \in UNION {[1..n -> AuthorityInputs] : n \in 0..MaxAuthorities} :
        \A i, j \in DOMAIN c : i # j => c[i].id # c[j].id}

\* Authority.find({isOnDuty: true, department: {$in: [...]}})
AvailableAuthorities(c) ==
    SelectSeq(c, LAMBDA x : x.isOnDuty /\ x.department \in EligibleDepartments)

\* the _id of each document found
AuthorityFind(c) == [i \in DOMAIN AvailableAuthorities(c) |-> AvailableAuthorities(c)[i].id]

InitAssign ==
    /\ alerts = << >>
    /\ nextAlert = 1
    /\ incidents = << >>
    /\ touristStatus = [t \in Tourists |-> "active"]
    /\ authorityPool \in {AuthorityFind(c) : c \in AuthorityCollections}
    /\ reqs = [s \in 1..MaxFilings |-> Idle]
    /\ safetyScore = << >>
    /\ currentLocation = << >>
    /\ locationSharing = [t \in Tourists |-> TRUE]
    /\ geofences = << >>

SpecAssign == InitAssign /\ [][NextIncident]_vars

\* Location updates of one tourist over a GeoFence collection that holds up
\* to MaxZones documents, with alerts created beside them.
ZoneInputs ==
    {[type |-> "danger", isActive |-> TRUE, center |-> 2, radius |-> 1],
     [type |-> "danger", isActive |-> TRUE, center |-> 1, radius |-> 1],
     [type |-> "danger", isActive |-> FALSE, center |-> 2, radius |-> 1],
     [type |-> "safe", isActive |-> TRUE, center |-> 2, radius |-> 1]}

GeoFenceCollections ==
    UNION {[1..n -> ZoneInputs] : n \in 0..MaxZones}

HourInputs == {5, 6, 21, 22}

InitScore ==
    /\ alerts = << >>
    /\ nextAlert = 1
    /\ incidents = << >>
    /\ touristStatus = [t \in Tourists |-> "active"]
    /\ authorityPool = <<"a1">>
    /\ reqs = [s \in 1..MaxInflight |-> Idle]
    /\ safetyScore = << >>
    /\ currentLocation = << >>
    /\ locationSharing = [t \in Tourists |-> TRUE]
    /\ geofences \in GeoFenceCollections

NextScore ==
    \/ \E lat \in 1..MaxLat, hour \in HourInputs, n \in RecentAlertCounts, f \in ScoreFaults :
          PostLocation("t1", lat, 1, hour, n, f)
    \/ \E u \in {"t1", "a1"}, lat \in {0, 1}, lng \in {0, 1} :
          PostLocation(u, lat, lng, 6, 0, NoFault)
    \/ \E ty \in {"sos", "manual"} :
          PostAlert("a1", ty, "ok", "ok", Absent, Absent, Absent)

SpecScore == InitScore /\ [][NextScore]_vars

\* The zone endpoints alone: one authority and one tourist create, update and
\* delete zones.  The authority sends every body; the tourist sends the
\* bodies that pass the validation.
PutBodies ==
    {b \in [type : ZoneTypeInputs, center : CenterInputs, radius : RadiusInputs,
            isActive : ActiveInputs] :
        Cardinality({f \in {"type", "isActive"} : b[f] # Absent})
          + Cardinality({f \in {"center", "radius"} : b[f] # 0}) <= 1}

NextZone ==
    \/ \E ty \in ZoneTypeInputs \ {Absent}, c \in CenterInputs, r \in RadiusInputs :
          PostFences("a1", "ok", ty, c, r)
    \/ \E u \in {"t1", "a1"}, f \in {Absent, "ok"}, ty \in {Absent, "danger"} :
          PostFences(u, f, ty, 2, 2)
    \/ \E ty \in ZoneTypeInputs \ {Absent}, c \in CenterInputs, r \in WholeRadiusInputs :
          PostGeofences("a1", "ok", ty, c, r)
    \/ \E u \in {"t1", "a1"}, f \in {Absent, "ok"}, ty \in {Absent, "danger"} :
          PostGeofences(u, f, ty, 2, 2)
    \/ \E u \in {"t1", "a1"}, id \in 1..MaxZones, b \in PutBodies : PutFences(u, id, b)
    \/ \E u \in {"t1", "a1"}, id \in 1..MaxZones : DeleteFences(u, id)

SpecZone == Init /\ [][NextZone]_vars

\* Location updates over stored alerts that carry a location and a creation
\* time: up to MaxRecent alerts of the three kinds, at 1000 and 1001 m of the
\* latitude 2000, created at the hours 0 and 1 and looked up at the hours 24
\* and 25, in any status.
RecentAlertInputs ==
    {[type |-> ty, touristId |-> "t2", status |-> st, authorityId |-> Null,
      description |-> Absent, severity |-> "medium", location |-> loc, createdAt |-> c] :
        ty \in {"sos", "incident", "manual"}, st \in {"active", "resolved"},
        loc \in {1000, 999}, c \in {0, 1}}

NowInputs == {24, 25}

InitRecent ==
    /\ alerts \in UNION {[1..n -> RecentAlertInputs] : n \in 0..MaxRecent}
    /\ nextAlert = Len(alerts) + 1
    /\ incidents = << >>
    /\ touristStatus = [t \in Tourists |-> "active"]
    /\ authorityPool = <<"a1">>
    /\ reqs = [s \in 1..MaxInflight |-> Idle]
    /\ safetyScore = << >>
    /\ currentLocation = << >>
    /\ locationSharing = [t \in Tourists |-> TRUE]
    /\ geofences = << >>

NextRecent ==
    \E lat \in {1000, 2000}, hour \in {6, 22}, now \in NowInputs :
        PostLocation("t1", lat, 1, hour, Cardinality(RecentAlerts(lat, 1, now)),
                     RecentAlertsFault)

SpecRecent == InitRecent /\ [][NextRecent]_vars

\* Location updates and location-sharing toggles of one tourist beside the
\* SOS activations of that tourist and their resolution by an authority; up
\* to MaxHandlers handlers are suspended at their awaits at the same time.
InitLocation ==
    /\ alerts = << >>
    /\ nextAlert = 1
    /\ incidents = << >>
    /\ touristStatus = [t \in Tourists |-> "active"]
    /\ authorityPool = <<"a1">>
    /\ reqs = [s \in 1..MaxHandlers |-> Idle]
    /\ safetyScore = << >>
    /\ currentLocation = << >>
    /\ geofences = << >>
    /\ locationSharing \in [Tourists -> BOOLEAN]

NextLocation ==
    \/ \E u \in {"t1", "a1"}, lat \in {0, 1, 2} : PostLocationFind(u, lat, 1)
    \/ \E s \in Slots, hour \in {6, 22} : PostLocationSave(s, hour, 0, NoFault)
    \/ \E u \in {"t1", "a1"}, e \in EnabledInputs : PostLocationSharing(u, e)
    \/ PostSos("t1", "ok", Absent)
    \/ \E s \in Slots : PostSosSaveTourist(s)
    \/ \E s \in Slots : PostSosRespond(s, NoFault, NoFault)
    \/ \E a \in AlertIds : PutSosStatus("a1", a, "resolved", Absent)
    \/ \E s \in Slots : PutSosStatusSave(s)
    \/ \E s \in Slots : PutSosStatusTourist(s)

SpecLocation == InitLocation /\ [][NextLocation]_vars

\* ------------------------------------------------------- the lifecycle (spec 4.4)
Rank(st) ==
    CASE st = "active" -> 0
      [] st = "acknowledged" -> 1
      [] st = "responding" -> 2
      [] st = "resolved" -> 3
      [] st = "closed" -> 4

Permitted(from, to) ==
    <<from, to>> \in {<<"active", "acknowledged">>, <<"active", "responding">>,
                      <<"acknowledged", "responding">>, <<"acknowledged", "resolved">>,
                      <<"responding", "resolved">>, <<"resolved", "closed">>}

\* the alerts stored before and after a step
Kept == DOMAIN alerts \cap DOMAIN alerts'

\* this step is the write of the status request st on the stored alert a by
\* one of the generic status endpoints
GenericWrite(a, st) ==
    \/ \E u \in Authorities : PutAlertStatusCode(u, a, st) = 200 /\ PutAlertStatus(u, a, st)
    \/ \E u \in Authorities :
          PutAuthorityAlertStatusCode(u, a, st) = 200 /\ PutAuthorityAlertStatus(u, a, st)

\* this step is the save of the suspended SOS status handler s, on an alert
\* that is still stored
SosWrite(s) ==
    /\ reqs[s].op = "sosStatus" /\ reqs[s].pc = "save"
    /\ reqs[s].alert \in DOMAIN alerts
    /\ PutSosStatusSave(s)

\* this step is the write of a status request st on the stored alert a
StatusWrite(a, st) ==
    \/ GenericWrite(a, st)
    \/ \E s \in Slots : SosWrite(s) /\ reqs[s].alert = a /\ reqs[s].status = st

NoHandlerSuspended == ~Busy

\* C1: over any sequence of status updates the status of an alert never
\* moves backward in active < acknowledged < responding < resolved < closed.
C1_ForwardOnly ==
    [][\A a \in Kept : Rank(alerts'[a].status) >= Rank(alerts[a].status)]_vars

\* C2: a status request of an authority whose (stored, requested) pair is not
\* a permitted edge is rejected: no endpoint performs its write, and status,
\* authorityId and description of the alert stay as they were.
C2_InvalidTransitionRejected ==
    [][\A a \in DOMAIN alerts, st \in StatusInputs :
          (~Permitted(alerts[a].status, st) /\ StatusWrite(a, st))
              => (a \in DOMAIN alerts' /\ alerts'[a] = alerts[a])]_vars

\* C3: when another request has changed the status while a status handler
\* was suspended between its read and its write, the handler's write takes
\* effect only if its requested status is reachable by a permitted edge from
\* the status stored at the write; otherwise the stored status stays.
C3_RevalidateAtCommit ==
    [][\A s \in Slots :
          (SosWrite(s) /\ alerts[reqs[s].alert].status # reqs[s].loaded)
          => \/ Permitted(alerts[reqs[s].alert].status, reqs[s].status)
             \/ alerts'[reqs[s].alert].status = alerts[reqs[s].alert].status]_vars

\* C4: a status request of a caller who is not an authority is answered with
\* the permission error (403) on each of the three status endpoints,
\* whatever status it asks for.
C4_RoleGate ==
    \A u \in Users, a \in AlertIds, st \in StatusInputs :
        userType(u) # "authority" =>
            /\ PutAlertStatusCode(u, a, st) = 403
            /\ PutAuthorityAlertStatusCode(u, a, st) = 403
            /\ PutSosStatusCode(u, a, st) = 403

\* C5: closed is terminal and is entered only from resolved.
C5_ClosedTerminal ==
    [][\A a \in Kept :
          /\ alerts[a].status = "closed" => alerts'[a].status = "closed"
          /\ (alerts'[a].status = "closed" /\ alerts[a].status # "closed")
                => alerts[a].status = "resolved"]_vars

\* C6: for an authority every permitted edge is enabled (on the generic
\* status endpoints for every alert, on the SOS endpoint for an SOS alert
\* and the statuses it takes), and the write of a successful request leaves
\* the stored status equal to the requested one; so acknowledged, resolved,
\* closed in sequence take a new alert to closed.
EdgesEnabled ==
    \A u \in Authorities, a \in DOMAIN alerts, st \in StatusInputs :
        Permitted(alerts[a].status, st) =>
            /\ PutAlertStatusCode(u, a, st) = 200
            /\ PutAuthorityAlertStatusCode(u, a, st) = 200
            /\ (alerts[a].type = "sos" /\ st # "closed") => PutSosStatusCode(u, a, st) = 200

C6_PermittedEdgesEnabled ==
    [][/\ alerts' # alerts => EdgesEnabled'
       /\ \A a \in Kept : alerts'[a] # alerts[a] =>
             \A st \in AlertRouterStatuses : GenericWrite(a, st) => alerts'[a].status = st
       /\ \A s \in Slots : SosWrite(s) => alerts'[reqs[s].alert].status = reqs[s].status]_vars

C6_Witness ==
    /\ NoHandlerSuspended
    /\ \E a \in DOMAIN alerts : alerts[a].status = "closed" /\ alerts[a].type = "sos"

\* C7: every alert is created with status active, on each creation path
\* (SOS activation, incident filing, POST /alerts whatever the body holds).
C7_CreatedActive ==
    [][\A a \in DOMAIN alerts' \ DOMAIN alerts : alerts'[a].status = "active"]_vars

C7_Witness ==
    /\ \E a \in DOMAIN alerts : alerts[a].type = "manual" /\ alerts[a].status = "active"
    /\ \E a \in DOMAIN alerts : alerts[a].type = "incident" /\ alerts[a].status = "active"

\* C8: when an SOS activation answers with success, an alert of kind sos
\* with status active exists for the caller and the caller's status is
\* emergency.
C8_SosPostcondition ==
    [][\A s \in Slots :
          (reqs[s].op = "sos" /\ reqs[s].pc = "notify"
           /\ \E fa \in AuthorityDispatchFaults, fc \in ContactDispatchFaults :
                 PostSosRespond(s, fa, fc)) =>
              /\ reqs[s].alert \in DOMAIN alerts'
              /\ alerts'[reqs[s].alert].type = "sos"
              /\ alerts'[reqs[s].alert].status = "active"
              /\ alerts'[reqs[s].alert].touristId = TouristFindOne(reqs[s].user)
              /\ touristStatus'[TouristFindOne(reqs[s].user)] = "emergency"]_vars

C8_Witness ==
    /\ NoHandlerSuspended
    /\ \E a \in DOMAIN alerts :
          /\ alerts[a].type = "sos" /\ alerts[a].status = "active"
          /\ alerts[a].touristId \in Tourists
          /\ touristStatus[alerts[a].touristId] = "emergency"

\* C9: whenever an alert of kind sos goes to resolved, through whichever
\* status endpoint, its tourist's status is active when the request is done.
C9_ResolveRestoresTourist ==
    [][\A a \in Kept :
          (/\ alerts[a].type = "sos" /\ alerts[a].touristId \in Tourists
           /\ alerts[a].status # "resolved" /\ alerts'[a].status = "resolved"
           /\ ~Busy')
          => touristStatus'[alerts[a].touristId] = "active"]_vars

\* C10: a transition of an alert whose kind is not sos leaves the status of
\* every tourist unchanged: the step that writes the alert does not write a
\* tourist, and no suspended SOS status handler (the only one that writes a
\* tourist afterwards) is working on such an alert.
NoSosHandlerOnOtherKind ==
    \A s \in Slots :
        (reqs[s].op = "sosStatus" /\ reqs[s].alert \in DOMAIN alerts)
            => alerts[reqs[s].alert].type = "sos"

C10_NonSosLeavesTourists ==
    [][/\ (\E a \in Kept : alerts[a].type # "sos" /\ alerts'[a] # alerts[a])
            => touristStatus' = touristStatus
       /\ NoSosHandlerOnOtherKind /\ NoSosHandlerOnOtherKind']_vars

C10_Witness ==
    \E a, b \in DOMAIN alerts :
        /\ alerts[a].type = "incident" /\ alerts[a].status = "resolved"
        /\ alerts[b].type = "sos" /\ alerts[b].touristId \in Tourists
        /\ alerts[b].status \in {"active", "acknowledged", "responding"}
        /\ touristStatus[alerts[b].touristId] = "emergency"

\* ------------------------------------------------- incident filing (spec 4.5)
IncidentAlerts == {a \in DOMAIN alerts : alerts[a].type = "incident"}

\* the handler in slot s answers its filing with 201 in this step
FilingSucceeds(s) ==
    /\ reqs[s].op = "incident" /\ reqs[s].pc = "assign"
    /\ \E f \in AssignFaults : PostIncidentAssignCode(f) = 201 /\ PostIncidentAssign(s, f)

\* C11: a successful filing creates exactly one incident (its first write)
\* and exactly one alert (its second write, which writes no incident); when
\* it answers 201 that alert has kind incident, status active, the reporter
\* as subject and the severity stored on the incident.
C11_FilingCreatesPair ==
    [][\A s \in Slots :
          /\ (reqs[s].op = "idle" /\ reqs'[s].op = "incident") =>
                /\ Len(incidents') = Len(incidents) + 1
                /\ alerts' = alerts
          /\ (reqs[s].op = "incident" /\ reqs[s].pc = "save_alert"
               /\ reqs'[s].op = "incident" /\ reqs'[s].pc = "assign") =>
                /\ DOMAIN alerts' \ DOMAIN alerts = {reqs'[s].alert}
                /\ incidents' = incidents
          /\ FilingSucceeds(s) =>
                /\ Len(incidents') = Len(incidents) /\ alerts' = alerts
                /\ reqs[s].alert \in DOMAIN alerts'
                /\ alerts'[reqs[s].alert].type = "incident"
                /\ alerts'[reqs[s].alert].status = "active"
                /\ alerts'[reqs[s].alert].touristId = incidents'[reqs[s].incident].reporterId
                /\ alerts'[reqs[s].alert].severity = incidents'[reqs[s].incident].severity]_vars

C11_Witness ==
    /\ NoHandlerSuspended
    /\ \E i \in DOMAIN incidents, a \in IncidentAlerts :
          /\ incidents[i].severity = "high" /\ alerts[a].severity = "high"
          /\ alerts[a].touristId = incidents[i].reporterId
    /\ \E i \in DOMAIN incidents, a \in IncidentAlerts :
          incidents[i].severity = "medium" /\ alerts[a].severity = "medium"

\* C12: when an incident filing is done, with success or with an error,
\* its incident and its alert are both stored or neither is.
C12_FilingAtomic ==
    [][\A s \in Slots :
          (reqs[s].op = "incident" /\ reqs'[s].op = "idle") =>
              ((reqs[s].incident \in DOMAIN incidents')
                 <=> (reqs[s].pc = "assign" /\ reqs[s].alert \in DOMAIN alerts'))]_vars

\* C13: whenever no handler is suspended, incidents and alerts of kind
\* incident are paired one to one; the code keeps no link between them, so
\* the pairing shows in their numbers.
C13_PairedOneToOne ==
    NoHandlerSuspended => Cardinality(IncidentAlerts) = Len(incidents)

C15_NumberAssignedOnce ==
    [][/\ \A i \in DOMAIN incidents :
             i \in DOMAIN incidents' /\ incidents'[i].eFIRNumber = incidents[i].eFIRNumber
       /\ \A s \in Slots : FilingSucceeds(s) =>
             PostIncidentResponse(s).eFIRNumber = incidents'[reqs[s].incident].eFIRNumber]_vars

\* an incident the assignment step has saved a second time
C15_Witness ==
    /\ NoHandlerSuspended
    /\ \E i \in DOMAIN incidents : i > 1 /\ incidents[i].assignedOfficer # Null

\* C16: when no authority is available, or the lookup or the write of the
\* assignment fails, the filing still answers 201, its incident and alert
\* stay stored and the incident has no assigned officer.
C16_AssignmentNonFatal ==
    [][\A s \in Slots, f \in AssignFaults :
          (/\ reqs[s].op = "incident" /\ reqs[s].pc = "assign"
           /\ (f # NoFault \/ Len(authorityPool) = 0)
           /\ PostIncidentAssign(s, f)) =>
              /\ PostIncidentAssignCode(f) = 201
              /\ reqs[s].incident \in DOMAIN incidents'
              /\ reqs[s].alert \in DOMAIN alerts'
              /\ incidents'[reqs[s].incident].assignedOfficer = Null]_vars

\* a filing whose assignment failed although an authority was available
C16_Witness ==
    /\ NoHandlerSuspended
    /\ Len(authorityPool) > 0
    /\ \E i \in DOMAIN incidents : incidents[i].assignedOfficer = Null
    /\ Cardinality(IncidentAlerts) = Len(incidents)

\* ------------------------------------------------------ scoring (spec 4.3)
\* C17: calculateSafetyScore returns a value in 0..100 for every position,
\* hour and number of recent alerts over the stored zones, and every
\* safetyScore a location update has stored is in 0..100.
C17_ScoreInRange ==
    /\ \A t \in DOMAIN safetyScore : safetyScore[t] \in 0..100
    /\ \A lat \in 1..MaxLat, hour \in HourInputs, n \in 0..MaxAlerts, f \in ScoreFaults :
          calculateSafetyScore(lat, 1, hour, n, f) \in 0..100

\* a stored score that the clamp has raised to 0
C17_Witness ==
    \E t \in DOMAIN safetyScore :
        /\ safetyScore[t] = 0
        /\ ZoneLoop(85, DangerZones, currentLocation[t], 1) < 0

\* the active danger zones at the given distance of a position
ZonesInside(lat) ==
    {i \in DOMAIN geofences :
        /\ geofences[i].type = "danger" /\ geofences[i].isActive
        /\ calculateDistance(lat, 1, geofences[i].center, 1) <= geofences[i].radius}

ZonesNear(lat) ==
    {i \in DOMAIN geofences :
        /\ geofences[i].type = "danger" /\ geofences[i].isActive
        /\ calculateDistance(lat, 1, geofences[i].center, 1) > geofences[i].radius
        /\ calculateDistance(lat, 1, geofences[i].center, 1) <= 2 * geofences[i].radius}

\* C18: the score is the clamp to 0..100 of 85 - 30 per active danger zone
\* that contains the point - 15 per active danger zone the point is near
\* - 10 at night - 5 per recent alert; every zone counts on its own.
C18_ScoreFormula ==
    \A lat \in 1..MaxLat, hour \in HourInputs, n \in 0..MaxAlerts :
        calculateSafetyScore(lat, 1, hour, n, NoFault) =
            Clamp(85 - 30 * Cardinality(ZonesInside(lat)) - 15 * Cardinality(ZonesNear(lat))
                     - (IF hour \in 22..23 \cup 0..5 THEN 10 ELSE 0) - 5 * n)

\* the example: one containing zone, a night hour, one recent alert, beside
\* zones that do not count, give 40
C18_Witness ==
    \E t \in DOMAIN safetyScore :
        /\ safetyScore[t] = 40
        /\ Cardinality(ZonesInside(currentLocation[t])) = 1
        /\ ZonesNear(currentLocation[t]) = {}
        /\ Len(geofences) = MaxZones

\* C19: a failing zone or alert lookup never blocks a location update: the
\* request is answered 200 whatever fails, the position is stored, and the
\* score stored is 85 or the one stored before.
C19_ScoringNeverBlocks ==
    [][/\ \A u \in Tourists, f \in ScoreFaults : PostLocationCode(u, 1, 1, f) = 200
       /\ \A t \in DOMAIN currentLocation', f \in ScoreFaults \ {NoFault} :
             (\E hour \in HourInputs, n \in RecentAlertCounts :
                 PostLocation(t, currentLocation'[t], 1, hour, n, f)) =>
                /\ safetyScore'[t] = 85
                   \/ (t \in DOMAIN safetyScore /\ safetyScore'[t] = safetyScore[t])
                /\ currentLocation'[t] \in 1..MaxLat]_vars

\* a position whose computed score is not 85 stored with the score 85
C19_Witness ==
    \E t \in DOMAIN safetyScore :
        /\ safetyScore[t] = 85
        /\ \A hour \in HourInputs, n \in 0..MaxAlerts :
              calculateSafetyScore(currentLocation[t], 1, hour, n, NoFault) < 85

\* --------------------------------------------------- dispatch (spec 4.4)
\* C20: whatever fails while the authorities or the emergency contact are
\* notified, the SOS request is answered 201, its alert stays stored with
\* status active and its tourist stays in emergency.
C20_DispatchNeverFails ==
    [][\A s \in Slots :
          (reqs[s].op = "sos" /\ reqs[s].pc = "notify") =>
              \A fa \in AuthorityDispatchFaults, fc \in ContactDispatchFaults :
                  PostSosRespond(s, fa, fc) =>
                      /\ PostSosRespondCode(fa, fc) = 201
                      /\ reqs[s].alert \in DOMAIN alerts'
                      /\ alerts'[reqs[s].alert] = alerts[reqs[s].alert]
                      /\ alerts'[reqs[s].alert].status = "active"
                      /\ touristStatus'[TouristFindOne(reqs[s].user)] = "emergency"]_vars

\* SOS requests answered, every SOS alert active with its tourist in emergency
C20_Witness ==
    /\ NoHandlerSuspended
    /\ \E a \in DOMAIN alerts : alerts[a].type = "sos" /\ alerts[a].touristId \in Tourists
    /\ \A a \in DOMAIN alerts :
          (alerts[a].type = "sos" /\ alerts[a].touristId \in Tourists) =>
              alerts[a].status = "active" /\ touristStatus[alerts[a].touristId] = "emergency"

\* ------------------------------------------------------- dispatch (spec 5)
\* C21: once the SOS alert and the tourist status are written, the response
\* can be sent whatever becomes of the two dispatches, a dispatch that never
\* completes included.
C21_ResponseWithoutDispatch ==
    \A s \in Slots :
        (reqs[s].op = "sos" /\ reqs[s].pc = "notify") =>
            \A fa \in AuthorityDispatchFaults, fc \in ContactDispatchFaults :
                ENABLED PostSosRespond(s, fa, fc)

\* ------------------------------------------------------- zones (spec 4.2)
\* the inputs of the zone queries
LatInputs == 1..MaxLat
HalfLatInputs == 2..(2 * MaxLat)
SearchRadiusInputs == {0, 2, 3, 4}      \* 0, 1, 1.5, 2

\* C22: no zone query returns or scores an inactive zone: check-location,
\* nearby, the danger zones of scoring, GET /fences without an active
\* parameter and GET /geofences.
C22_InactiveExcluded ==
    /\ \A lat \in LatInputs :
          \A i \in DOMAIN CheckLocation(lat, 1).geoFences :
              CheckLocation(lat, 1).geoFences[i].geoFence.isActive
    /\ \A lat \in HalfLatInputs, r \in SearchRadiusInputs :
          \A i \in DOMAIN NearbyFences(lat, 1, r) : NearbyFences(lat, 1, r)[i].fence.isActive
    /\ \A i \in DOMAIN DangerZones : DangerZones[i].isActive
    /\ \A ty \in ZoneTypeInputs :
          /\ \A i \in DOMAIN GetGeofences(ty) : GetGeofences(ty)[i].isActive
          /\ \A i \in DOMAIN GetFences(ty, Absent) : GetFences(ty, Absent)[i].isActive

\* the answers that report a write
ZoneWritten == {200, 201}

\* C23: zones are created, updated and deleted only by authority-role
\* actors: no zone request of a tourist is answered as done, on the geo
\* router or on the authority router, and every change of the zone
\* collection is the create, update or delete an authority asked for.
C23_AuthorityOnly ==
    /\ [](\A u \in Tourists :
            /\ \A f \in {Absent, "ok"}, ty \in ZoneTypeInputs, c \in CenterInputs,
                  r \in RadiusInputs :
                  /\ PostFencesCode(u, f, ty, c, r) \notin ZoneWritten
                  /\ PostGeofencesCode(u, f, ty, c, r) \notin ZoneWritten
            /\ \A id \in 1..MaxZones :
                  /\ PutFencesCode(u, id) \notin ZoneWritten
                  /\ DeleteFencesCode(u, id) \notin ZoneWritten)
    /\ [][geofences' # geofences =>
            \E u \in Authorities :
                IF Len(geofences') > Len(geofences)
                THEN \E ty \in ZoneTypeInputs, c \in CenterInputs, r \in RadiusInputs :
                        PostFences(u, "ok", ty, c, r) \/ PostGeofences(u, "ok", ty, c, r)
                ELSE IF Len(geofences') < Len(geofences)
                THEN \E id \in DOMAIN geofences : DeleteFences(u, id)
                ELSE \E id \in DOMAIN geofences :
                        /\ geofences'[id] # geofences[id]
                        /\ \E b \in PutBodies : PutFences(u, id, b)]_vars

\* a zone is stored, and the tourist who asks to delete it is answered 403,
\* the tourist who posts a valid zone to the authority router 500
C23_Witness ==
    /\ Len(geofences) > 0
    /\ DeleteFencesCode("t1", 1) = 403
    /\ PutFencesCode("t1", 1) = 403
    /\ PostFencesCode("t1", "ok", "danger", 2, 2) = 403
    /\ PostGeofencesCode("t1", "ok", "danger", 2, 2) = 500

\* C24: every stored zone has a radius above zero and a centre latitude in
\* [-90, 90]: a create or an update with a radius that is zero, negative or
\* a fraction that truncates to zero, or with a centre out of range, stores
\* nothing.
C24_StoredZonesValid ==
    \A i \in DOMAIN geofences :
        geofences[i].radius > 0 /\ geofences[i].center \in -90..90

\* the stored zones that are active and hold the point within their radius
Containing(lat) ==
    SelectSeq(geofences, LAMBDA z :
        z.isActive /\ calculateDistance(lat, 1, z.center, 1) <= z.radius)

\* C25: containment includes the boundary: check-location reports exactly
\* the active zones whose centre is at a distance <= their radius, each with
\* that distance, and scoring takes the containing penalty from exactly the
\* active danger zones at a distance <= their radius.
C25_BoundaryInclusive ==
    \A lat \in LatInputs :
        LET results == CheckLocation(lat, 1).geoFences
        IN /\ [i \in DOMAIN results |-> results[i].geoFence] = Containing(lat)
           /\ \A i \in DOMAIN results :
                 results[i].distance = calculateDistance(lat, 1, results[i].geoFence.center, 1)
           /\ \A i \in DOMAIN DangerZones :
                 (ZoneLoop(85, <<DangerZones[i]>>, lat, 1) = 55)
                    <=> (calculateDistance(lat, 1, DangerZones[i].center, 1)
                            <= DangerZones[i].radius)

\* a point on the boundary of a zone is reported inside it, beside a point
\* just past the boundary that is not
C25_Witness ==
    \E lat \in LatInputs \ {MaxLat} :
        /\ \E i \in DOMAIN CheckLocation(lat, 1).geoFences :
              LET r == CheckLocation(lat, 1).geoFences[i]
              IN r.distance = r.geoFence.radius /\ r.distance > 0
        /\ CheckLocation(lat + 1, 1).geoFences = << >>
        /\ ActiveFences # << >>

\* C26: check-location answers isInDangerZone exactly when an active zone of
\* type danger contains the point.
C26_DangerFlag ==
    \A lat \in LatInputs :
        CheckLocation(lat, 1).isInDangerZone
            <=> \E i \in DOMAIN Containing(lat) : Containing(lat)[i].type = "danger"

\* one collection answers true at a point inside an active danger zone and
\* false at a point that only a safe zone contains, with an inactive danger
\* zone around it
C26_Witness ==
    /\ \E lat \in LatInputs : CheckLocation(lat, 1).isInDangerZone
    /\ \E lat \in LatInputs :
          /\ ~CheckLocation(lat, 1).isInDangerZone
          /\ CheckLocation(lat, 1).geoFences # << >>
          /\ \E i \in DOMAIN geofences :
                /\ geofences[i].type = "danger" /\ ~geofences[i].isActive
                /\ calculateDistance(lat, 1, geofences[i].center, 1) <= geofences[i].radius

\* the stored zones that are active and have their centre within the search
\* radius; the latitude and the radius are in halves
Within(lat, radius) ==
    SelectSeq(geofences, LAMBDA z :
        z.isActive /\ calculateDistance(lat, 1, 2 * z.center, 1) <= radius)

\* C27: the nearby search returns exactly the active zones whose centre is
\* within the search radius, whatever their own radius, each with its
\* distance, in order of non-decreasing distance.
C27_NearbyExact ==
    \A lat \in HalfLatInputs, radius \in SearchRadiusInputs :
        LET found == NearbyFences(lat, 1, radius)
        IN /\ \A i \in DOMAIN geofences :
                 Cardinality({j \in DOMAIN found : found[j].fence = geofences[i]})
                   = Cardinality({j \in DOMAIN Within(lat, radius) :
                                     Within(lat, radius)[j] = geofences[i]})
           /\ Len(found) = Len(Within(lat, radius))
           /\ \A j \in DOMAIN found :
                 found[j].distance = calculateDistance(lat, 1, 2 * found[j].fence.center, 1)
           /\ \A j \in DOMAIN found :
                 j > 1 => found[j - 1].distance <= found[j].distance

\* C28: a position with latitude 0 or longitude 0 is valid and is accepted
\* by SOS activation, location update, check-location and nearby: none of
\* them answers 400 to it.
C28_ZeroAccepted ==
    /\ \A u \in DOMAIN touristStatus : PostSosCode(u, "zero") # 400
    /\ \A u \in DOMAIN touristStatus, lat \in {0, 1}, lng \in {0, 1} :
          PostLocationCode(u, lat, lng, NoFault) # 400
    /\ \A lat \in {0, 1}, lng \in {0, 1} : CheckLocationCode(lat, lng) # 400
    /\ NearbyCode(TRUE, TRUE) # 400

\* the request changes something
Changes(A) == ENABLED (A /\ vars' # vars)

\* C29: a request that refers to a record that does not exist is answered
\* 404 and changes nothing: an SOS, an incident or a location update of a
\* user without a tourist profile, and a status update, a zone update or a
\* zone deletion that names an id no document has.
C29_NotFoundChangesNothing ==
    /\ \A u \in Users \ Tourists :
          /\ PostSosCode(u, "ok") = 404
          /\ PostIncidentCode(u, "ok", "ok") = 404
          /\ PostLocationCode(u, 1, 1, NoFault) = 404
          /\ \A sev \in SeverityInputs :
                /\ ~Changes(PostSos(u, "ok", sev))
                /\ ~Changes(PostIncident(u, "ok", "ok", sev))
          /\ ~Changes(PostLocation(u, 1, 1, 6, 0, NoFault))
    /\ \A u \in Authorities, a \in AlertIds \ DOMAIN alerts :
          /\ \A st \in AlertRouterStatuses :
                /\ PutAlertStatusCode(u, a, st) = 404
                /\ ~Changes(PutAlertStatus(u, a, st))
          /\ \A st \in AuthorityRouterStatuses :
                /\ PutAuthorityAlertStatusCode(u, a, st) = 404
                /\ ~Changes(PutAuthorityAlertStatus(u, a, st))
          /\ \A st \in SosStatuses :
                /\ PutSosStatusCode(u, a, st) = 404
                /\ \A n \in NotesInputs : ~Changes(PutSosStatus(u, a, st, n))
    /\ \A u \in Authorities, id \in (1..MaxZones) \ DOMAIN geofences :
          /\ PutFencesCode(u, id) = 404
          /\ DeleteFencesCode(u, id) = 404
          /\ \A b \in PutBodies : ~Changes(PutFences(u, id, b))
          /\ ~Changes(DeleteFences(u, id))

\* alerts are stored, one of them under a status handler, and an id that
\* names none of them is answered 404 by the three status endpoints
C29_Witness ==
    /\ DOMAIN alerts # {}
    /\ \E a \in AlertIds \ DOMAIN alerts :
          /\ PutAlertStatusCode("a1", a, "resolved") = 404
          /\ PutAuthorityAlertStatusCode("a1", a, "resolved") = 404
          /\ PutSosStatusCode("a1", a, "resolved") = 404
    /\ \E a \in DOMAIN alerts : PutSosStatusCode("a1", a, "resolved") = 200

\* the hours of a day, and those of the night
Hours == 0..23
NightHours == {22, 23, 0, 1, 2, 3, 4, 5}

\* C30: the night penalty of 10 is applied at the hours 22, 23 and 0..5 and
\* at no hour of 6..21.
C30_NightHours ==
    \A hour \in Hours, lat \in LatInputs :
        calculateSafetyScore(lat, 1, hour, 0, NoFault) =
            Clamp(ZoneLoop(85, DangerZones, lat, 1) - (IF hour \in NightHours THEN 10 ELSE 0))

\* a score stored at night over zones that take nothing from it: 75
C30_Witness ==
    \E t \in DOMAIN safetyScore :
        /\ safetyScore[t] = 75
        /\ ZoneLoop(85, DangerZones, currentLocation[t], 1) = 85
        /\ DangerZones # << >>

\* ------------------------------------------------ recent alerts (spec 4.3)
\* the stored alerts that count at a position and a time
Counted(lat, now) ==
    {a \in DOMAIN alerts :
        /\ alerts[a].type = "sos" \/ alerts[a].type = "incident"
        /\ alerts[a].location - lat \in -1000..1000
        /\ now - alerts[a].createdAt <= 24}

\* C31: the recent-incident penalty is 5 for each alert of kind sos or
\* incident located within 1000 m of the position and created within the 24
\* hours before now, whatever its status, and for no other alert; the
\* penalties add up without a cap until the score is clamped.
C31_RecentPenalty ==
    \A lat \in {1000, 2000}, hour \in {6, 22}, now \in NowInputs :
        /\ RecentAlerts(lat, 1, now) = Counted(lat, now)
        /\ calculateSafetyScore(lat, 1, hour, Cardinality(RecentAlerts(lat, 1, now)),
                                RecentAlertsFault)
             = Clamp(85 - (IF hour \in NightHours THEN 10 ELSE 0)
                        - 5 * Cardinality(Counted(lat, now)))

\* a score stored by day over MaxRecent alerts that all count, one of them
\* resolved
C31_Witness ==
    \E t \in DOMAIN safetyScore :
        /\ safetyScore[t] = 85 - 5 * MaxRecent
        /\ Len(alerts) = MaxRecent
        /\ \E a \in DOMAIN alerts : alerts[a].status = "resolved"
        /\ \E a \in DOMAIN alerts : alerts[a].status = "active"

\* ---------------------------------------------------- assignment (spec 4.5)
\* the first document of a collection that is on duty in one of the two
\* departments, or none
FirstEligible(c) ==
    IF \E i \in DOMAIN c : c[i].isOnDuty /\ c[i].department \in {"Police Department", "Tourism Department"}
    THEN LET i == CHOOSE i \in DOMAIN c :
                    /\ c[i].isOnDuty /\ c[i].department \in {"Police Department", "Tourism Department"}
                    /\ \A j \in 1..(i - 1) :
                          ~(c[j].isOnDuty /\ c[j].department \in {"Police Department", "Tourism Department"})
         IN c[i].id
    ELSE Null

GenericWriteWithNotes(a, st, notes) == GenericWrite(a, st)

\* C33: a successful transition that carries responseNotes leaves them as the
\* alert's description, and one that carries none leaves the description as
\* it was, through the SOS status endpoint and through the generic ones.
C33_NotesOverwrite ==
    [][alerts' # alerts =>
        \A a \in Kept, n \in NotesInputs :
            /\ \A s \in Slots :
                  (SosWrite(s) /\ reqs[s].alert = a /\ reqs[s].notes = n)
                     => alerts'[a].description = IF n # Absent THEN n ELSE alerts[a].description
            /\ \A st \in StatusInputs :
                  GenericWriteWithNotes(a, st, n)
                     => alerts'[a].description = IF n # Absent THEN n ELSE alerts[a].description]_vars

\* the statuses of an alert that is still open
OpenStatuses == {"active", "acknowledged", "responding"}

\* the stored SOS alerts of a tourist that are open
OpenSosAlerts(t) ==
    {a \in DOMAIN alerts :
        alerts[a].type = "sos" /\ alerts[a].touristId = t /\ alerts[a].status \in OpenStatuses}

\* C34: whenever no request is being handled, a tourist's status is emergency
\* exactly when an SOS alert of that tourist is stored with status active,
\* acknowledged or responding.
C34_StatusTracksOpenSos ==
    NoHandlerSuspended =>
        \A t \in Tourists : (touristStatus[t] = "emergency") <=> (OpenSosAlerts(t) # {})

\* C35: an SOS request that reports an error leaves nothing behind: when the
\* write of the tourist's status fails after the write of the alert, the
\* alert of the request is not stored and the tourist's status is the one
\* the request found.
C35_SosNoPartialState ==
    [][\A s \in Slots :
          PostSosSaveTouristRejects(s) =>
              /\ reqs[s].alert \notin DOMAIN alerts'
              /\ touristStatus'[TouristFindOne(reqs[s].user)] = reqs[s].loaded]_vars

\* ---------------------------------------------------- the tourist profile
\* C36: a step that writes a position or a score writes no tourist's status
\* and no location-sharing flag, also when the update was suspended while an
\* SOS activation or resolution of the same tourist wrote the status; and a
\* step that writes a location-sharing flag writes no position, score or
\* status.
C36_LocationFrame ==
    [][/\ (currentLocation' # currentLocation \/ safetyScore' # safetyScore
            \/ \E s \in Slots, hour \in {6, 22} : PostLocationSave(s, hour, 0, NoFault))
          => (touristStatus' = touristStatus /\ locationSharing' = locationSharing)
       /\ locationSharing' # locationSharing
          => /\ currentLocation' = currentLocation /\ safetyScore' = safetyScore
             /\ touristStatus' = touristStatus]_vars

\* a location update of t1 is suspended before its save with the status it
\* loaded, active, while an SOS activation has stored emergency; the
\* location-sharing flag of t1 is off and a position of t1 is stored
C36_Witness ==
    /\ \E s \in Slots :
          /\ reqs[s].op = "location" /\ reqs[s].user = "t1"
          /\ reqs[s].loaded = "active" /\ touristStatus["t1"] = "emergency"
    /\ "t1" \in DOMAIN currentLocation
    /\ ~locationSharing["t1"]

\* C37: calculateSafetyScore never returns more than the base score: for
\* every position, hour, number of recent alerts and failing lookup over the
\* stored zones its value is in 0..85, and so is every score stored.
C37_ScoreAtMostBase ==
    /\ \A t \in DOMAIN safetyScore : safetyScore[t] \in 0..85
    /\ \A lat \in 1..MaxLat, hour \in Hours, n \in 0..MaxAlerts, f \in ScoreFaults :
          calculateSafetyScore(lat, 1, hour, n, f) \in 0..85

\* the base score is reached: a score of 85 computed, without a failing
\* lookup, by day at a position away from the stored active danger zones
C37_Witness ==
    \E t \in DOMAIN safetyScore :
        /\ safetyScore[t] = 85
        /\ DangerZones # << >>
        /\ calculateSafetyScore(currentLocation[t], 1, 6, 0, NoFault) = 85

\* C38: a tourist obtains from the alert listing, from the lookup by id and
\* from the tourist feed only alerts whose subject is that tourist; the
\* lookup by id of an alert of another tourist, or of an alert without a
\* subject, is refused and answers no alert data.
C38_ReadIsolation ==
    \A u \in Tourists :
        /\ \A ty \in TypeInputs, st \in StatusFilterInputs, sev \in SeverityFilterInputs,
              page \in PageInputs, limit \in LimitInputs :
              LET found == GetAlerts(u, ty, st, sev, page, limit)
              IN  \A i \in DOMAIN found : alerts[found[i]].touristId = TouristFindOne(u)
        /\ \A i \in DOMAIN GetTouristAlerts(u) :
              alerts[GetTouristAlerts(u)[i]].touristId = TouristFindOne(u)
        /\ \A a \in DOMAIN alerts :
              IF alerts[a].touristId = TouristFindOne(u)
              THEN GetAlertById(u, a).data.touristId = TouristFindOne(u)
              ELSE /\ GetAlertById(u, a).code # 200
                   /\ GetAlertById(u, a).data = Null

\* a tourist with an alert of their own reads while an alert of another
\* tourist and an alert without a subject are stored or were refused
C38_Witness ==
    \E u \in Tourists, a, b \in DOMAIN alerts :
        /\ alerts[a].touristId = TouristFindOne(u)
        /\ alerts[b].touristId # TouristFindOne(u)
        /\ GetAlerts(u, Absent, Absent, Absent, 1, 20) = <<a>>
        /\ GetTouristAlerts(u) = <<a>>
        /\ GetAlertById(u, a).code = 200
        /\ GetAlertById(u, b).code \in {403, 500}

\* C39: after a successful status update through any of the three status
\* endpoints the alert's authorityId is the _id of the authority that made
\* the request.
C39_ResponderRecorded ==
    [][alerts' # alerts =>
        \A a \in Kept, u \in Authorities :
            /\ \A st \in StatusInputs :
                  (PutAlertStatusCode(u, a, st) = 200 /\ PutAlertStatus(u, a, st))
                     => alerts'[a].authorityId = AuthorityFindOne(u)
            /\ \A st \in StatusInputs :
                  (PutAuthorityAlertStatusCode(u, a, st) = 200
                      /\ PutAuthorityAlertStatus(u, a, st))
                     => alerts'[a].authorityId = AuthorityFindOne(u)
            /\ \A s \in Slots :
                  (SosWrite(s) /\ reqs[s].alert = a /\ reqs[s].user = u)
                     => alerts'[a].authorityId = AuthorityFindOne(u)]_vars

====
